---- MODULE Spec2Model ----
(***************************************************************************)
(* Timestamp Camera PWA.  Two variants of the application logic exist:     *)
(*   "flash"   : src/unnamed/part_000 (torch control, stamp burned in at   *)
(*               capture only, dd/mm/yyyy hh:mm)                           *)
(*   "overlay" : src/unnamed/part_001 (live timestamp overlay refreshed    *)
(*               once per second, yyyy-mm-dd hh:mm:ss)                     *)
(* The variable `variant` says which of the two files is running.          *)
(* JavaScript strings the program computes are sequences of one-character  *)
(* strings; "" is << >>.                                                   *)
(***************************************************************************)
EXTENDS Integers, Sequences, FiniteSets, TLC

VARIABLES
    variant,            \* which source file runs
    lastOp,             \* the handler that ran last, with its input
    \* ---- module state (part_000:30-37, part_001:29-35)
    facingMode, currentStream, timestampEnabled, timestampMode, customDateTime,
    capturedBlob,
    \* ---- DOM
    srcObject,          \* video.srcObject
    videoSize,          \* video.videoWidth / video.videoHeight
    cameraOverlay,      \* the #cameraOverlay element, or NoOverlay
    timestampToggleChecked, timeModeValue, customTimeRowHidden,
    customTimeInputValue,
    timestampOverlay,   \* part_001: textContent and style.display
    captureCanvas,      \* width, height and what was drawn
    previewImgSrc, previewHidden,
    \* ---- environment
    localStorage,       \* the value under 'tsCamera_settings'
    now,                \* the wall clock
    viewport,           \* window.innerWidth / window.innerHeight
    mediaSupported,     \* navigator.mediaDevices.getUserMedia exists
    storageThrows,      \* localStorage.getItem / setItem throw
    calls,              \* every getUserMedia request issued, in order
    stopped,            \* streams whose tracks were stopped
    encodes,            \* toBlob callbacks not yet run
    nextBlob,           \* id of the next captured image
    shareSupported,     \* navigator.share exists
    downloads,          \* images handed to the browser's download, in order
    shares,             \* every navigator.share call, in order
    consoleErrors,      \* what console.error has logged
    \* ---- torch (part_000)
    flashOn, torchSupported,
    hasTorch,           \* the rear camera's track has the torch capability
    torchOn,            \* streams whose track has the torch lit
    applies,            \* every applyConstraints call, in order
    \* ---- service worker (src/sw.js)
    swCaches,           \* CacheStorage: cache name -> requests it answers
    swPhase,            \* lifecycle of this worker version
    swResponse,         \* how the last fetch event was answered
    \* ---- formatter harness
    fmtD1, fmtD2, fmtS1, fmtS2

camVars == <<facingMode, currentStream, srcObject, videoSize, cameraOverlay,
             calls, stopped>>
setVars == <<timestampEnabled, timestampMode, customDateTime,
             timestampToggleChecked, timeModeValue, customTimeRowHidden,
             customTimeInputValue, localStorage>>
capVars == <<capturedBlob, captureCanvas, previewImgSrc, previewHidden,
             encodes, nextBlob>>
fmtVars == <<fmtD1, fmtD2, fmtS1, fmtS2>>
envVars == <<variant, mediaSupported, storageThrows, shareSupported,
            hasTorch>>
flashVars == <<flashOn, torchSupported, torchOn, applies>>
expVars == <<downloads, shares, consoleErrors>>
swVars == <<swCaches, swPhase, swResponse>>
vars == <<lastOp, envVars, flashVars, expVars, swVars, camVars, setVars,
          capVars, fmtVars, timestampOverlay, now, viewport>>

Variants == {"flash", "overlay"}
NULL == "null"

\* ------------------------------------------------------------------------
\* Strings
\* ------------------------------------------------------------------------
Digits == <<"0", "1", "2", "3", "4", "5", "6", "7", "8", "9">>
Digit(n) == Digits[n + 1]
IsDigit(c) == \E i \in 1..10 : Digits[i] = c
DigitVal(c) == (CHOOSE i \in 1..10 : Digits[i] = c) - 1

\* The UTF-16 code unit of every character the formatters can print.
CharCode(c) ==
    CASE c = " " -> 32
      [] c = "-" -> 45
      [] c = "/" -> 47
      [] c = ":" -> 58
      [] c = "T" -> 84
      [] OTHER   -> 48 + DigitVal(c)

RECURSIVE String(_)
\* String(n) for an integer n >= 0: its decimal digits, no padding.
String(n) == IF n < 10 THEN <<Digit(n)>>
             ELSE Append(String(n \div 10), Digit(n % 10))

\* padStart that never pads.
padStartNone(s, targetLength, padChar) == s

RECURSIVE padStart(_, _, _)
padStart(s, targetLength, padChar) ==
    IF Len(s) >= targetLength THEN s
    ELSE padStart(<<padChar>> \o s, targetLength, padChar)

RECURSIVE StrLess(_, _)
\* s < t as JavaScript compares strings: code unit by code unit, a proper
\* prefix first.
StrLess(s, t) ==
    IF t = << >> THEN FALSE
    ELSE IF s = << >> THEN TRUE
    ELSE IF CharCode(Head(s)) # CharCode(Head(t))
         THEN CharCode(Head(s)) < CharCode(Head(t))
    ELSE StrLess(Tail(s), Tail(t))

StrLeq(s, t) == s = t \/ StrLess(s, t)

RECURSIVE ParseNat(_)
ParseNat(s) == IF s = << >> THEN 0
               ELSE 10 * ParseNat(SubSeq(s, 1, Len(s) - 1)) + DigitVal(s[Len(s)])

AllDigits(s) == \A i \in 1..Len(s) : IsDigit(s[i])

\* ------------------------------------------------------------------------
\* Dates (local time).  month is 0-based as Date.getMonth() returns it.
\* ------------------------------------------------------------------------
InvalidDate == [valid |-> FALSE, year |-> 0, month |-> 0, date |-> 0,
                hours |-> 0, minutes |-> 0, seconds |-> 0]
MkDate(y, mo, d, h, mi, s) ==
    [valid |-> TRUE, year |-> y, month |-> mo, date |-> d,
     hours |-> h, minutes |-> mi, seconds |-> s]

\* A JavaScript value that is not a string, where a string is expected,
\* is a one-element sequence naming its type (no character is that long).
NotAString == {<<"(number)">>, <<"(boolean)">>, <<"(object)">>}
IsString(x) == x \notin NotAString

\* new Date(0): the epoch, read here in a zone at UTC.
EpochDate == MkDate(1970, 0, 1, 0, 0, 0)

\* new Date(str) for a local date-time string "YYYY-MM-DDTHH:MM" (what a
\* datetime-local input holds); anything else is an Invalid Date.  A small
\* number or a boolean is taken as milliseconds since the epoch.
NewDate(str) ==
    IF str \in {<<"(number)">>, <<"(boolean)">>} THEN EpochDate
    ELSE
    IF /\ Len(str) = 16
       /\ str[5] = "-" /\ str[8] = "-" /\ str[11] = "T" /\ str[14] = ":"
       /\ AllDigits(SubSeq(str, 1, 4)) /\ AllDigits(SubSeq(str, 6, 7))
       /\ AllDigits(SubSeq(str, 9, 10)) /\ AllDigits(SubSeq(str, 12, 13))
       /\ AllDigits(SubSeq(str, 15, 16))
       /\ ParseNat(SubSeq(str, 6, 7)) \in 1..12
       /\ ParseNat(SubSeq(str, 9, 10)) \in 1..31
       /\ ParseNat(SubSeq(str, 12, 13)) \in 0..23
       /\ ParseNat(SubSeq(str, 15, 16)) \in 0..59
    THEN MkDate(ParseNat(SubSeq(str, 1, 4)), ParseNat(SubSeq(str, 6, 7)) - 1,
                ParseNat(SubSeq(str, 9, 10)), ParseNat(SubSeq(str, 12, 13)),
                ParseNat(SubSeq(str, 15, 16)), 0)
    ELSE InvalidDate

\* part_000:282-291
formatDateTimeFlash(d) ==
    IF ~d.valid THEN << >>
    ELSE LET day     == padStart(String(d.date), 2, "0")
             month   == padStart(String(d.month + 1), 2, "0")
             year    == String(d.year)
             hours   == padStart(String(d.hours), 2, "0")
             minutes == padStart(String(d.minutes), 2, "0")
         IN  day \o <<"/">> \o month \o <<"/">> \o year \o <<" ">>
             \o hours \o <<":">> \o minutes

\* The part_001 formatter with the month left unpadded.
formatDateTimeOverlayBareMonth(d) ==
    IF ~d.valid THEN << >>
    ELSE LET year    == String(d.year)
             month   == String(d.month + 1)
             day     == padStart(String(d.date), 2, "0")
             hours   == padStart(String(d.hours), 2, "0")
             minutes == padStart(String(d.minutes), 2, "0")
             seconds == padStart(String(d.seconds), 2, "0")
         IN  year \o <<"-">> \o month \o <<"-">> \o day \o <<" ">>
             \o hours \o <<":">> \o minutes \o <<":">> \o seconds

\* part_001:222-232
formatDateTimeOverlay(d) ==
    IF ~d.valid THEN << >>
    ELSE LET year    == String(d.year)
             month   == padStart(String(d.month + 1), 2, "0")
             day     == padStart(String(d.date), 2, "0")
             hours   == padStart(String(d.hours), 2, "0")
             minutes == padStart(String(d.minutes), 2, "0")
             seconds == padStart(String(d.seconds), 2, "0")
         IN  year \o <<"-">> \o month \o <<"-">> \o day \o <<" ">>
             \o hours \o <<":">> \o minutes \o <<":">> \o seconds

formatDateTime(v, d) ==
    IF v = "flash" THEN formatDateTimeFlash(d) ELSE formatDateTimeOverlay(d)

\* part_000:293-300, part_001:234-241
toLocalISOString(d) ==
    LET year    == String(d.year)
        month   == padStart(String(d.month + 1), 2, "0")
        day     == padStart(String(d.date), 2, "0")
        hours   == padStart(String(d.hours), 2, "0")
        minutes == padStart(String(d.minutes), 2, "0")
    IN  year \o <<"-">> \o month \o <<"-">> \o day \o <<"T">>
        \o hours \o <<":">> \o minutes

\* ------------------------------------------------------------------------
\* Bounds
\* ------------------------------------------------------------------------
MaxStarts   == 3    \* getUserMedia requests issued in one run
MaxCaptures == 2    \* frames handed to toBlob in one run
MaxTicks    == 2    \* seconds the wall clock advances in one run
MaxExports  == 2    \* downloads, and share calls, in one run
MaxApplies  == 2    \* applyConstraints calls in one run

\* The wall clock: t seconds after 2026-11-02 09:05:58 local time.
ClockDate(t) ==
    MkDate(2026, 10, 2, 9, 5 + ((58 + t) \div 60), (58 + t) % 60)
Now == ClockDate(now)

\* Values the custom-time control can deliver to its input handler: the
\* empty string (control cleared) or a valid local date-time.
PickerValues ==
    { << >>,
      <<"2", "0", "2", "4", "-", "0", "2", "-", "2", "9", "T", "2", "3", ":", "0", "7">>,
      <<"0", "9", "9", "9", "-", "1", "2", "-", "3", "1", "T", "0", "0", ":", "0", "0">> }

\* ------------------------------------------------------------------------
\* Timestamp text (part_000:271-280, part_001:211-220)
\* ------------------------------------------------------------------------
\* getTimestampText testing the toggle only on the live-time path.
TimestampTextCustomFirst(v, enabled, mode, custom, clock) ==
    IF mode = "custom" /\ custom # << >>
    THEN formatDateTime(v, NewDate(custom))
    ELSE IF ~enabled THEN << >>
    ELSE formatDateTime(v, clock)

\* getTimestampText using the custom time whenever one is set.
TimestampTextAnyMode(v, enabled, mode, custom, clock) ==
    IF ~enabled THEN << >>
    ELSE IF custom # << >>
         THEN formatDateTime(v, NewDate(custom))
         ELSE formatDateTime(v, clock)

TimestampText(v, enabled, mode, custom, clock) ==
    IF ~enabled THEN << >>
    ELSE IF mode = "custom" /\ custom # << >>
         THEN formatDateTime(v, NewDate(custom))
         ELSE formatDateTime(v, clock)

getTimestampText ==
    TimestampText(variant, timestampEnabled, timestampMode, customDateTime, Now)

\* ------------------------------------------------------------------------
\* Settings persistence (part_000:417-448, part_001:373-404)
\* ------------------------------------------------------------------------
\* JSON values carry their JavaScript type.
JBool(b) == [t |-> "boolean", v |-> b]
JStr(s)  == [t |-> "string", v |-> s]
JObject(f) == [t |-> "object", f |-> f]
JNum(n) == [t |-> "number", v |-> n]
JNull == [t |-> "null"]
\* What reading a property the object does not have yields.
JUndefined == [t |-> "undefined"]

\* getItem returns null when the key is missing.
NoItem == [kind |-> "null", value |-> [t |-> "null"]]

\* The text JSON.stringify writes and JSON.parse reads back.
JSONstringify(value) == [kind |-> "json", value |-> value]
JSONparses(raw) == raw.kind = "json"
JSONparse(raw) == raw.value

Truthy(x) ==
    CASE x.t = "boolean" -> x.v
      [] x.t = "string"  -> x.v # << >>
      [] x.t = "number"  -> x.v # 0
      [] x.t = "object"  -> TRUE
      [] OTHER           -> FALSE

\* The value a variable holds after `variable = data.field`.
Held(x) ==
    CASE x.t = "string"  -> x.v
      [] x.t = "number"  -> <<"(number)">>
      [] x.t = "boolean" -> <<"(boolean)">>
      [] OTHER           -> <<"(object)">>

\* Assigning to the value of the date-time control: the value is turned
\* into a string and kept only if it is a valid local date-time.
datetimeLocalValue(x) ==
    IF IsString(x) /\ NewDate(x).valid THEN x ELSE << >>

\* What saveSettings leaves in storage.  setItem may throw; the catch
\* block ignores it and storage keeps its old value.
saveSettings(enabled, mode, pickerValue, store, throws) ==
    IF throws THEN store
    ELSE JSONstringify(JObject([timestampEnabled |-> JBool(enabled),
                                timestampMode    |-> JStr(mode),
                                customDateTime   |-> JStr(pickerValue)]))

\* The in-memory settings and their controls, as one record.
Settings(enabled, mode, custom, checked, modeValue, rowHidden, pickerValue) ==
    [timestampEnabled |-> enabled, timestampMode |-> mode,
     customDateTime |-> custom, timestampToggleChecked |-> checked,
     timeModeValue |-> modeValue, customTimeRowHidden |-> rowHidden,
     customTimeInputValue |-> pickerValue]

\* What loadSettings makes of settings s given the stored text.  Every
\* exception (getItem, JSON.parse, a property read of null) is swallowed
\* and leaves what was assigned before it.
loadSettings(s, raw, throws) ==
    IF throws \/ raw.kind \in {"null", "empty"} THEN s
    ELSE IF ~JSONparses(raw) THEN s
    ELSE LET data == JSONparse(raw) IN
         IF data.t # "object" THEN s
         ELSE
         LET e  == data.f.timestampEnabled
             m  == data.f.timestampMode
             c  == data.f.customDateTime
             s1 == IF e.t = "boolean"
                   THEN [s EXCEPT !.timestampEnabled = e.v,
                                  !.timestampToggleChecked = e.v]
                   ELSE s
             s2 == IF m.t = "string" /\ m.v \in {"current", "custom"}
                   THEN [s1 EXCEPT !.timestampMode = m.v,
                                   !.timeModeValue = m.v,
                                   !.customTimeRowHidden = (m.v # "custom")]
                   ELSE s1
             s3 == IF Truthy(c)
                   THEN [s2 EXCEPT !.customDateTime = Held(c),
                                   !.customTimeInputValue =
                                       datetimeLocalValue(Held(c))]
                   ELSE s2
         IN  s3

\* The module-level initial values (part_000:30-37) with the picker as
\* init() pre-fills it (part_000:44-45).
DefaultSettings(clock) ==
    Settings(TRUE, "current", << >>, TRUE, "current", TRUE,
             toLocalISOString(clock))

CurrentSettings ==
    Settings(timestampEnabled, timestampMode, customDateTime,
             timestampToggleChecked, timeModeValue, customTimeRowHidden,
             customTimeInputValue)

SetSettings(s) ==
    /\ timestampEnabled' = s.timestampEnabled
    /\ timestampMode' = s.timestampMode
    /\ customDateTime' = s.customDateTime
    /\ timestampToggleChecked' = s.timestampToggleChecked
    /\ timeModeValue' = s.timeModeValue
    /\ customTimeRowHidden' = s.customTimeRowHidden
    /\ customTimeInputValue' = s.customTimeInputValue

\* updateOverlay writing the text and never hiding the element.
updateOverlayAlwaysShown(v, text, old) ==
    IF v = "overlay" THEN [textContent |-> text, display |-> "block"]
    ELSE old

\* part_001:243-247.  part_000 has no live overlay.
updateOverlay(v, text, old) ==
    IF v = "overlay"
    THEN [textContent |-> text,
          display |-> IF text # << >> THEN "block" ELSE "none"]
    ELSE old

\* ------------------------------------------------------------------------
\* Camera session (part_000:92-161, 219-268; part_001:95-157, 159-208)
\* ------------------------------------------------------------------------
NoStream == 0
NoOverlay == [title |-> NULL, buttonText |-> NULL, listeners |-> 0]

ErrorNames == {"NotAllowedError", "PermissionDeniedError", "NotFoundError",
               "DevicesNotFoundError", "NotReadableError"}

\* showCameraOverlay: innerHTML is rebuilt, so the retry button (present
\* when buttonText is not null) is a new element carrying one click
\* listener.
showCameraOverlay(old, title, buttonText) ==
    [title |-> title, buttonText |-> buttonText,
     listeners |-> IF buttonText # NULL THEN 1 ELSE 0]

hideCameraOverlay(old) == NoOverlay

\* The catch block knowing only the standard error names.
ErrorOverlayStandardNames(old, name) ==
    IF name = "NotAllowedError"
    THEN showCameraOverlay(old, "Camera access denied", "Grant Camera Access")
    ELSE IF name = "NotFoundError"
    THEN showCameraOverlay(old, "No camera found", "Try Again")
    ELSE showCameraOverlay(old, "Camera error", "Start Camera")

\* A catch block with no final else: an unclassified error shows nothing.
ErrorOverlayClassifiedOnly(old, name) ==
    IF name \in {"NotAllowedError", "PermissionDeniedError"}
    THEN showCameraOverlay(old, "Camera access denied", "Grant Camera Access")
    ELSE IF name \in {"NotFoundError", "DevicesNotFoundError"}
    THEN showCameraOverlay(old, "No camera found", "Try Again")
    ELSE old

\* The catch block of startCamera.
ErrorOverlay(old, name) ==
    IF name \in {"NotAllowedError", "PermissionDeniedError"}
    THEN showCameraOverlay(old, "Camera access denied", "Grant Camera Access")
    ELSE IF name \in {"NotFoundError", "DevicesNotFoundError"}
    THEN showCameraOverlay(old, "No camera found", "Try Again")
    ELSE showCameraOverlay(old, "Camera error", "Start Camera")

\* The camera state startCamera reads and writes, as one record.
Cam(mode, stream, stops, overlay, requests) ==
    [facingMode |-> mode, currentStream |-> stream, stopped |-> stops,
     cameraOverlay |-> overlay, calls |-> requests]

CurrentCam == Cam(facingMode, currentStream, stopped, cameraOverlay, calls)

\* startCamera up to its await: stop the previous stream's tracks, hide
\* the panel, then either report the missing API or issue a getUserMedia
\* request for the facing mode read now.
startCamera(c, supported, origin) ==
    LET stops == IF c.currentStream # NoStream
                 THEN c.stopped \cup {c.currentStream}
                 ELSE c.stopped
        hidden == hideCameraOverlay(c.cameraOverlay)
    IN  IF ~supported
        THEN [c EXCEPT !.stopped = stops,
                       !.cameraOverlay =
                           showCameraOverlay(hidden, "Camera not available", NULL)]
        ELSE [c EXCEPT !.stopped = stops,
                       !.cameraOverlay = hidden,
                       !.calls = Append(@, [facing |-> c.facingMode,
                                            origin |-> origin,
                                            status |-> "pending"])]

\* A click that runs startCamera a second time once the first call has
\* returned.
ClicksTwice(c, supported, n) ==
    startCamera(startCamera(c, supported, "retry"), supported, "retry")

RECURSIVE Clicks(_, _, _)
\* A click runs every listener of the retry button; each calls startCamera.
Clicks(c, supported, n) ==
    IF n = 0 THEN c
    ELSE Clicks(startCamera(c, supported, "retry"), supported, n - 1)

SetCam(c) ==
    /\ facingMode' = c.facingMode
    /\ currentStream' = c.currentStream
    /\ stopped' = c.stopped
    /\ cameraOverlay' = c.cameraOverlay
    /\ calls' = c.calls

Flip(mode) == IF mode = "environment" THEN "user" ELSE "environment"

Op(name) == [op |-> name, id |-> 0, err |-> "none"]
Started == lastOp.op # "none"

\* ------------------------------------------------------------------------
\* Capture (part_000:303-362, part_001:255-317)
\* ------------------------------------------------------------------------
NoSize == [w |-> 0, h |-> 0]
FrameSizes == {[w |-> 1920, h |-> 1080], [w |-> 1080, h |-> 1920],
               [w |-> 720, h |-> 720]}
Viewports == {[w |-> 390, h |-> 844], [w |-> 844, h |-> 390],
              [w |-> 800, h |-> 800]}

\* A canvas element before anything is drawn on it.
BlankCanvas == [width |-> 300, height |-> 150, rotated |-> FALSE,
                mirrored |-> FALSE, text |-> << >>]

\* Rotation decided by the viewport alone.
needsRotationPortraitOnly(video, window) == window.h > window.w

needsRotation(video, window) == window.h > window.w /\ video.w > video.h

\* What capturePhoto leaves on the canvas for a ready frame.
DrawFrame(video, window, mode, text) ==
    LET rot == needsRotation(video, window) IN
    [width    |-> IF rot THEN video.h ELSE video.w,
     height   |-> IF rot THEN video.w ELSE video.h,
     rotated  |-> rot,
     mirrored |-> (mode = "user"),
     text     |-> text]

NoBlob == [id |-> 0, image |-> BlankCanvas]

\* capturePhoto going on whatever the frame size.
FrameReadyAlways(size) == TRUE

\* `if (!vw || !vh) return;`
FrameReady(size) == size.w # 0 /\ size.h # 0

\* ------------------------------------------------------------------------
\* Export (part_000:375-405, part_001:330-361)
\* ------------------------------------------------------------------------
\* Names navigator.share rejects with: the user dismissed the dialog, the
\* call was not allowed, the files could not be shared.
ShareErrors == {"AbortError", "NotAllowedError", "DataError"}

\* The catch block logging whatever was thrown.
shareCatchLogAll(log, name) == Append(log, name)

\* The catch block of sharePhoto: console.error unless the user cancelled.
shareCatch(log, name) ==
    IF name # "AbortError" THEN Append(log, name) ELSE log

\* ------------------------------------------------------------------------
\* Initial state: the module-level declarations, before init() has run, on
\* a first visit (nothing stored yet).
\* ------------------------------------------------------------------------
HiddenOverlay == [textContent |-> << >>, display |-> "none"]

\* ------------------------------------------------------------------------
\* Service worker (src/sw.js)
\* ------------------------------------------------------------------------
\* CacheStorage with no cache in it, and no fetch event answered yet.
NoCaches == [n \in {} |-> {}]
NoResponse == [request |-> NULL, from |-> NULL]

CACHE_NAME == "ts-camera-v3"
ASSETS == {"./", "index.html", "camera.html", "style.css", "app.js",
           "manifest.json", "icons/icon-192.png", "icons/icon-512.png"}

\* caches.open(name) creates the cache when it does not exist.
cachesOpen(c, name) ==
    IF name \in DOMAIN c THEN c
    ELSE [n \in DOMAIN c \cup {name} |-> IF n = name THEN {} ELSE c[n]]

\* cache.addAll(requests) stores all the responses, or none when a fetch
\* fails.
cacheAddAll(c, name, requests, fetched) ==
    IF fetched THEN [c EXCEPT ![name] = @ \cup requests] ELSE c

\* The install handler's promise (sw.js:19-21).
installCaches(c, fetched) ==
    cacheAddAll(cachesOpen(c, CACHE_NAME), CACHE_NAME, ASSETS, fetched)

\* An activate handler that deletes nothing.
activateKeepAll(c) == c

\* The activate handler's promise (sw.js:27-33): every key other than
\* CACHE_NAME is deleted.
activateCaches(c) ==
    [n \in DOMAIN c \ {k \in DOMAIN c : k # CACHE_NAME} |-> c[n]]

\* caches.match(request) looks in every cache of the origin.
cachesMatch(c, request) == \E n \in DOMAIN c : request \in c[n]

\* The fetch handler (sw.js:39-43): `cached || fetch(event.request)`.
respondWith(c, request) ==
    [request |-> request,
     from |-> IF cachesMatch(c, request) THEN "cache" ELSE "network"]

InitApp ==
    /\ lastOp = Op("none")
    /\ facingMode = "environment"
    /\ currentStream = NoStream
    /\ timestampEnabled = TRUE
    /\ timestampMode = "current"
    /\ customDateTime = << >>
    /\ capturedBlob = NoBlob
    /\ srcObject = NoStream
    /\ videoSize = NoSize
    /\ cameraOverlay = NoOverlay
    /\ timestampToggleChecked = TRUE
    /\ timeModeValue = "current"
    /\ customTimeRowHidden = TRUE
    /\ customTimeInputValue = << >>
    /\ timestampOverlay = HiddenOverlay
    /\ captureCanvas = BlankCanvas
    /\ previewImgSrc = 0
    /\ previewHidden = TRUE
    /\ now = 0
    /\ calls = << >>
    /\ stopped = {}
    /\ encodes = {}
    /\ nextBlob = 1
    /\ downloads = << >>
    /\ shares = << >>
    /\ consoleErrors = << >>
    /\ swPhase = "parsed"
    /\ swResponse = NoResponse
    /\ flashOn = FALSE
    /\ torchSupported = FALSE
    /\ torchOn = {}
    /\ applies = << >>

\* A first visit: nothing is stored under 'tsCamera_settings' yet, and
\* the origin has no cache.
FirstVisit == localStorage = NoItem /\ swCaches = NoCaches

FormatIdle ==
    /\ fmtD1 = InvalidDate /\ fmtD2 = InvalidDate
    /\ fmtS1 = << >> /\ fmtS2 = << >>

Init ==
    /\ InitApp
    /\ FirstVisit
    /\ FormatIdle
    /\ shareSupported \in BOOLEAN
    /\ hasTorch \in BOOLEAN
    /\ variant \in Variants
    /\ mediaSupported \in BOOLEAN
    /\ storageThrows \in BOOLEAN
    /\ viewport \in Viewports

\* ------------------------------------------------------------------------
\* Handlers
\* ------------------------------------------------------------------------
\* part_000:164-181, run when request i has resolved: the track of a rear
\* camera reports the torch capability where the device has one.
checkTorchSupport(v, old, i) ==
    IF v = "flash" THEN hasTorch /\ calls[i].facing = "environment" ELSE old

\* startCamera's opening lines (part_000:93-100): the tracks it stops put
\* their torch out, and flashOn = false.
resetFlash ==
    /\ flashOn' = FALSE
    /\ torchOn' = torchOn \ stopped'
    /\ UNCHANGED <<torchSupported, applies>>

\* part_000:42-89, part_001:40-92
init ==
    /\ ~Started
    /\ LET s0 == [CurrentSettings EXCEPT
                     !.customTimeInputValue = toLocalISOString(Now)]
           s1 == loadSettings(s0, localStorage, storageThrows)
       IN  /\ SetSettings(s1)
           /\ timestampOverlay' =
                  updateOverlay(variant,
                                TimestampText(variant, s1.timestampEnabled,
                                              s1.timestampMode,
                                              s1.customDateTime, Now),
                                timestampOverlay)
    /\ SetCam(startCamera(CurrentCam, mediaSupported, "init"))
    /\ lastOp' = Op("init")
    /\ resetFlash
    /\ UNCHANGED <<envVars, expVars, swVars,
                   srcObject, videoSize, localStorage, capVars,
                   fmtVars, now, viewport>>

\* part_000:158-161, part_001:154-157
flipCamera ==
    /\ Started
    /\ Len(calls) < MaxStarts
    /\ SetCam(startCamera([CurrentCam EXCEPT !.facingMode = Flip(facingMode)],
                          mediaSupported, "flip"))
    /\ lastOp' = Op("flipCamera")
    /\ resetFlash
    /\ UNCHANGED <<envVars, expVars, swVars,
                   srcObject, videoSize, setVars, capVars, fmtVars,
                   timestampOverlay, now, viewport>>

\* A click on #cameraRetryBtn (part_000:255-260, part_001:195-200).
retryClick ==
    /\ Started
    /\ cameraOverlay.listeners > 0
    /\ Len(calls) + cameraOverlay.listeners <= MaxStarts
    /\ SetCam(Clicks(CurrentCam, mediaSupported, cameraOverlay.listeners))
    /\ lastOp' = Op("retryClick")
    /\ resetFlash
    /\ UNCHANGED <<envVars, expVars, swVars,
                   srcObject, videoSize, setVars, capVars, fmtVars,
                   timestampOverlay, now, viewport>>

\* The getUserMedia promise of request i resolves: startCamera resumes
\* after its await (part_000:125-129, part_001:124-128).
getUserMediaResolve(i) ==
    /\ calls[i].status = "pending"
    /\ calls' = [calls EXCEPT ![i].status = "resolved"]
    /\ currentStream' = i
    /\ srcObject' = i
    /\ videoSize' = NoSize
    /\ lastOp' = [op |-> "getUserMedia.resolve", id |-> i, err |-> "none"]
    /\ torchSupported' = checkTorchSupport(variant, torchSupported, i)
    /\ UNCHANGED <<flashOn, torchOn, applies>>
    /\ UNCHANGED <<envVars, expVars, swVars,
                   facingMode, stopped, cameraOverlay, setVars,
                   capVars, fmtVars, timestampOverlay, now, viewport>>

\* The promise of request i rejects: the catch block runs
\* (part_000:133-155, part_001:129-151).
getUserMediaReject(i, name) ==
    /\ calls[i].status = "pending"
    /\ calls' = [calls EXCEPT ![i].status = "rejected"]
    /\ cameraOverlay' = ErrorOverlay(cameraOverlay, name)
    /\ lastOp' = [op |-> "getUserMedia.reject", id |-> i, err |-> name]
    /\ UNCHANGED <<envVars, flashVars, expVars, swVars,
                   facingMode, currentStream, srcObject, videoSize,
                   stopped, setVars, capVars, fmtVars, timestampOverlay, now,
                   viewport>>

\* The attached live stream delivers its first frame: the video element
\* learns the frame size.
loadedMetadata(size) ==
    /\ srcObject # NoStream
    /\ srcObject \notin stopped
    /\ videoSize = NoSize
    /\ videoSize' = size
    /\ lastOp' = Op("loadedmetadata")
    /\ UNCHANGED <<envVars, flashVars, expVars, swVars,
                   facingMode, currentStream, srcObject,
                   cameraOverlay, calls, stopped, setVars, capVars, fmtVars,
                   timestampOverlay, now, viewport>>

\* The device is turned or the window resized.  (init runs to completion
\* when the script loads, before any event is dispatched.)
resize(window) ==
    /\ Started
    /\ window # viewport
    /\ viewport' = window
    /\ lastOp' = Op("resize")
    /\ UNCHANGED <<envVars, flashVars, expVars, swVars,
                   camVars, setVars, capVars, fmtVars,
                   timestampOverlay, now>>

\* A second passes.
clockTick ==
    /\ Started
    /\ now < MaxTicks
    /\ now' = now + 1
    /\ lastOp' = Op("clockTick")
    /\ UNCHANGED <<envVars, flashVars, expVars, swVars,
                   camVars, setVars, capVars, fmtVars,
                   timestampOverlay, viewport>>

\* part_001:249-252: the interval callback.
overlayTimer ==
    /\ Started
    /\ variant = "overlay"
    /\ timestampOverlay' =
           updateOverlay(variant, getTimestampText, timestampOverlay)
    /\ lastOp' = Op("overlayTimer")
    /\ UNCHANGED <<envVars, flashVars, expVars, swVars,
                   camVars, setVars, capVars, fmtVars, now,
                   viewport>>

\* A settings handler's common tail: saveSettings(), then (part_001 only)
\* updateOverlay(), both on the values just assigned.
SaveAndRefresh ==
    /\ localStorage' = saveSettings(timestampEnabled', timestampMode',
                                    customTimeInputValue', localStorage,
                                    storageThrows)
    /\ timestampOverlay' =
           updateOverlay(variant,
                         TimestampText(variant, timestampEnabled',
                                       timestampMode', customDateTime', Now),
                         timestampOverlay)

\* part_000:69-72, part_001:69-73
timestampToggleChange ==
    /\ Started
    /\ timestampToggleChecked' = ~timestampToggleChecked
    /\ timestampEnabled' = timestampToggleChecked'
    /\ UNCHANGED <<timestampMode, customDateTime, timeModeValue,
                   customTimeRowHidden, customTimeInputValue>>
    /\ SaveAndRefresh
    /\ lastOp' = Op("timestampToggle.change")
    /\ UNCHANGED <<envVars, flashVars, expVars, swVars,
                   camVars, capVars, fmtVars, now, viewport>>

\* part_000:74-78, part_001:75-80
timeModeChange(value) ==
    /\ Started
    /\ value # timeModeValue
    /\ timeModeValue' = value
    /\ timestampMode' = value
    /\ customTimeRowHidden' = (value # "custom")
    /\ UNCHANGED <<timestampEnabled, customDateTime, timestampToggleChecked,
                   customTimeInputValue>>
    /\ SaveAndRefresh
    /\ lastOp' = Op("timeMode.change")
    /\ UNCHANGED <<envVars, flashVars, expVars, swVars,
                   camVars, capVars, fmtVars, now, viewport>>

\* part_000:80-83, part_001:82-86
customTimeInput(value) ==
    /\ Started
    /\ value # customTimeInputValue
    /\ customTimeInputValue' = value
    /\ customDateTime' = value
    /\ UNCHANGED <<timestampEnabled, timestampMode, timestampToggleChecked,
                   timeModeValue, customTimeRowHidden>>
    /\ SaveAndRefresh
    /\ lastOp' = Op("customTime.input")
    /\ UNCHANGED <<envVars, flashVars, expVars, swVars,
                   camVars, capVars, fmtVars, now, viewport>>

\* part_000:303-362, part_001:255-317, up to the toBlob call.  toBlob
\* copies the bitmap when it is called; the callback runs later.
capturePhoto ==
    /\ Started
    /\ nextBlob <= MaxCaptures
    /\ IF ~FrameReady(videoSize)
       THEN UNCHANGED <<captureCanvas, encodes, nextBlob>>
       ELSE /\ captureCanvas' = DrawFrame(videoSize, viewport, facingMode,
                                          getTimestampText)
            /\ encodes' = encodes \cup {[id |-> nextBlob,
                                         image |-> captureCanvas']}
            /\ nextBlob' = nextBlob + 1
    /\ lastOp' = Op("capturePhoto")
    /\ UNCHANGED <<envVars, flashVars, expVars, swVars,
                   camVars, setVars, capturedBlob, previewImgSrc,
                   previewHidden, fmtVars, timestampOverlay, now, viewport>>

\* The toBlob callback of capture e (part_000:355-361, part_001:310-316);
\* ok = FALSE is a null blob.
toBlobCallback(e, ok) ==
    /\ e \in encodes
    /\ encodes' = encodes \ {e}
    /\ IF ok
       THEN /\ capturedBlob' = e
            /\ previewImgSrc' = e.id
            /\ previewHidden' = FALSE
       ELSE UNCHANGED <<capturedBlob, previewImgSrc, previewHidden>>
    /\ lastOp' = [op |-> "toBlob.callback", id |-> e.id,
                  err |-> IF ok THEN "none" ELSE "null blob"]
    /\ UNCHANGED <<envVars, flashVars, expVars, swVars,
                   camVars, setVars, captureCanvas, nextBlob,
                   fmtVars, timestampOverlay, now, viewport>>

\* closePreview hiding the preview and keeping the blob.
closePreviewKeepBlob ==
    /\ Started
    /\ ~previewHidden
    /\ previewHidden' = TRUE
    /\ previewImgSrc' = 0
    /\ lastOp' = Op("closePreview")
    /\ UNCHANGED <<envVars, flashVars,
                   expVars, swVars, camVars, setVars, capturedBlob,
                   captureCanvas, encodes, nextBlob, fmtVars,
                   timestampOverlay, now, viewport>>

\* part_000:365-372, part_001:320-327
closePreview ==
    /\ Started
    /\ ~previewHidden
    /\ previewHidden' = TRUE
    /\ previewImgSrc' = 0
    /\ capturedBlob' = NoBlob
    /\ lastOp' = Op("closePreview")
    /\ UNCHANGED <<envVars, flashVars, expVars, swVars,
                   camVars, setVars, captureCanvas, encodes,
                   nextBlob, fmtVars, timestampOverlay, now, viewport>>

\* part_000:375-387, part_001:330-342.  The anchor click hands the blob
\* to the browser's download.
downloadPhoto ==
    /\ Started
    /\ Len(downloads) < MaxExports
    /\ downloads' = IF capturedBlob = NoBlob THEN downloads
                    ELSE Append(downloads, capturedBlob.id)
    /\ lastOp' = Op("downloadPhoto")
    /\ UNCHANGED <<envVars, flashVars,
                   shares, consoleErrors, swVars, camVars, setVars,
                   capVars, fmtVars, timestampOverlay, now, viewport>>

\* part_000:390-399, part_001:345-353: sharePhoto up to its await.
sharePhoto ==
    /\ Started
    /\ Len(shares) < MaxExports
    /\ shares' = IF capturedBlob = NoBlob \/ ~shareSupported THEN shares
                 ELSE Append(shares, [file |-> capturedBlob.id,
                                      status |-> "pending"])
    /\ lastOp' = Op("sharePhoto")
    /\ UNCHANGED <<envVars, flashVars,
                   downloads, consoleErrors, swVars, camVars,
                   setVars, capVars, fmtVars, timestampOverlay, now, viewport>>

\* The promise of share call i resolves: sharePhoto returns.
shareResolve(i) ==
    /\ shares[i].status = "pending"
    /\ shares' = [shares EXCEPT ![i].status = "resolved"]
    /\ lastOp' = [op |-> "share.resolve", id |-> i, err |-> "none"]
    /\ UNCHANGED <<envVars, flashVars,
                   downloads, consoleErrors, swVars, camVars,
                   setVars, capVars, fmtVars, timestampOverlay, now, viewport>>

\* The promise of share call i rejects: the catch block runs
\* (part_000:400-404, part_001:354-359).
shareReject(i, name) ==
    /\ shares[i].status = "pending"
    /\ shares' = [shares EXCEPT ![i].status = "rejected"]
    /\ consoleErrors' = shareCatch(consoleErrors, name)
    /\ lastOp' = [op |-> "share.reject", id |-> i, err |-> name]
    /\ UNCHANGED <<envVars, flashVars,
                   downloads, swVars, camVars, setVars, capVars,
                   fmtVars, timestampOverlay, now, viewport>>

\* part_000:183-191: toggleFlash up to its await.  The track is that of
\* currentStream as it is now, live or stopped.
toggleFlash ==
    /\ Started
    /\ variant = "flash"
    /\ Len(applies) < MaxApplies
    /\ IF ~torchSupported \/ currentStream = NoStream
       THEN UNCHANGED <<flashOn, applies>>
       ELSE /\ flashOn' = ~flashOn
            /\ applies' = Append(applies, [stream |-> currentStream,
                                           torch |-> flashOn',
                                           status |-> "pending"])
    /\ lastOp' = Op("toggleFlash")
    /\ UNCHANGED <<envVars, torchSupported, torchOn, expVars, swVars,
                   camVars, setVars, capVars, fmtVars, timestampOverlay, now,
                   viewport>>

\* The promise of applyConstraints call i resolves: toggleFlash goes on to
\* updateFlashUI (part_000:197).  The torch of a live track is now as
\* requested; a stopped track has no torch to light.
applyConstraintsResolve(i) ==
    /\ applies[i].status = "pending"
    /\ applies' = [applies EXCEPT ![i].status = "resolved"]
    /\ torchOn' = IF applies[i].stream \in stopped THEN torchOn
                  ELSE IF applies[i].torch
                       THEN torchOn \cup {applies[i].stream}
                       ELSE torchOn \ {applies[i].stream}
    /\ lastOp' = [op |-> "applyConstraints.resolve", id |-> i, err |-> "none"]
    /\ UNCHANGED <<envVars, flashOn, torchSupported, expVars, swVars,
                   camVars, setVars, capVars, fmtVars, timestampOverlay, now,
                   viewport>>

\* The promise of call i rejects: the catch block logs the error and sets
\* flashOn = false (part_000:192-195).
applyConstraintsReject(i) ==
    /\ applies[i].status = "pending"
    /\ applies' = [applies EXCEPT ![i].status = "rejected"]
    /\ flashOn' = FALSE
    /\ consoleErrors' = Append(consoleErrors, "Flash error")
    /\ lastOp' = [op |-> "applyConstraints.reject", id |-> i,
                  err |-> "Flash error"]
    /\ UNCHANGED <<envVars, torchSupported, torchOn, downloads, shares,
                   swVars, camVars, setVars, capVars, fmtVars,
                   timestampOverlay, now, viewport>>

FlashNext ==
    \/ toggleFlash
    \/ \E i \in 1..Len(applies) : applyConstraintsResolve(i)
    \/ \E i \in 1..Len(applies) : applyConstraintsReject(i)

\* The page is loaded again: the script starts from its module-level
\* declarations and fresh markup (init() then runs); what is in storage,
\* the clock and the device stay.  The browser ends the old page's
\* streams, encodings and share calls with it.
reload ==
    /\ Started
    /\ lastOp' = Op("none")
    /\ facingMode' = "environment"
    /\ currentStream' = NoStream
    /\ srcObject' = NoStream
    /\ videoSize' = NoSize
    /\ cameraOverlay' = NoOverlay
    /\ calls' = << >>
    /\ stopped' = {}
    /\ SetSettings(Settings(TRUE, "current", << >>, TRUE, "current", TRUE,
                            << >>))
    /\ timestampOverlay' = HiddenOverlay
    /\ capturedBlob' = NoBlob
    /\ captureCanvas' = BlankCanvas
    /\ previewImgSrc' = 0
    /\ previewHidden' = TRUE
    /\ encodes' = {}
    /\ shares' = << >>
    /\ flashOn' = FALSE
    /\ torchSupported' = FALSE
    /\ torchOn' = {}
    /\ applies' = << >>
    /\ UNCHANGED <<envVars, downloads, consoleErrors, swVars, localStorage,
                   nextBlob, fmtVars, now, viewport>>

\* sw.js:18-23.  The worker is installed when the promise given to
\* waitUntil fulfils, and discarded when it rejects.
installEvent(fetched) ==
    /\ swPhase = "parsed"
    /\ swCaches' = installCaches(swCaches, fetched)
    /\ swPhase' = IF fetched THEN "installed" ELSE "redundant"
    /\ UNCHANGED <<lastOp, envVars, flashVars,
                   expVars, swResponse, camVars, setVars,
                   capVars, fmtVars, timestampOverlay, now, viewport>>

\* sw.js:26-35.  skipWaiting() lets the installed worker activate at once;
\* the worker is activated when the promise given to waitUntil settles.
activateEvent ==
    /\ swPhase = "installed"
    /\ swCaches' = activateCaches(swCaches)
    /\ swPhase' = "activated"
    /\ UNCHANGED <<lastOp, envVars, flashVars,
                   expVars, swResponse, camVars, setVars,
                   capVars, fmtVars, timestampOverlay, now, viewport>>

\* sw.js:38-44.  Fetch events reach the worker once it is activated.
fetchEvent(request) ==
    /\ swPhase = "activated"
    /\ swResponse' = respondWith(swCaches, request)
    /\ UNCHANGED <<lastOp, envVars, flashVars,
                   expVars, swCaches, swPhase, camVars,
                   setVars, capVars, fmtVars, timestampOverlay, now, viewport>>

\* Requests the controlled pages make: cached assets and others.
SwRequests == {"index.html", "app.js", "icons/icon-512.png", "favicon.ico"}

WorkerNext ==
    \/ \E fetched \in BOOLEAN : installEvent(fetched)
    \/ activateEvent
    \/ \E request \in SwRequests : fetchEvent(request)

ExportNext ==
    \/ downloadPhoto
    \/ sharePhoto
    \/ \E i \in 1..Len(shares) : shareResolve(i)
    \/ \E i \in 1..Len(shares), name \in ShareErrors : shareReject(i, name)

CameraNext ==
    \/ init
    \/ flipCamera
    \/ retryClick
    \/ \E i \in 1..Len(calls) : getUserMediaResolve(i)
    \/ \E i \in 1..Len(calls), name \in ErrorNames : getUserMediaReject(i, name)
    \/ \E size \in FrameSizes : loadedMetadata(size)

CaptureNext ==
    \/ \E window \in Viewports : resize(window)
    \/ capturePhoto
    \/ \E e \in encodes, ok \in BOOLEAN : toBlobCallback(e, ok)
    \/ closePreview

SettingsNext ==
    \/ clockTick
    \/ overlayTimer
    \/ timestampToggleChange
    \/ \E value \in {"current", "custom"} : timeModeChange(value)
    \/ \E value \in PickerValues : customTimeInput(value)

Next ==
    CameraNext \/ CaptureNext \/ SettingsNext \/ ExportNext \/ reload
    \/ WorkerNext \/ FlashNext

Spec == Init /\ [][Next]_vars

\* The camera session and the capture of frames, with the settings sheet
\* left alone and the encoder still busy.
CameraInit ==
    Init /\ storageThrows = FALSE /\ shareSupported = TRUE /\ hasTorch = TRUE

CameraSteps ==
    \/ CameraNext
    \/ \E window \in Viewports : resize(window)
    \/ capturePhoto

CameraSpec == CameraInit /\ [][CameraSteps]_vars

\* Starting the camera alone, on a browser whose getUserMedia promise
\* always settles: each pending request is eventually resolved or rejected.
Pending(i) == i <= Len(calls) /\ calls[i].status = "pending"

Settle(i) ==
    /\ Pending(i)
    /\ \/ getUserMediaResolve(i)
       \/ \E name \in ErrorNames : getUserMediaReject(i, name)

StartSteps ==
    \/ init
    \/ flipCamera
    \/ retryClick
    \/ \E i \in 1..Len(calls) : getUserMediaResolve(i)
    \/ \E i \in 1..Len(calls), name \in ErrorNames : getUserMediaReject(i, name)

StartFairness == \A i \in 1..MaxStarts : WF_vars(Settle(i))

StartSpec == CameraInit /\ [][StartSteps]_vars /\ StartFairness

\* The torch button and the camera session of part_000, on devices with
\* and without a torch.
FlashInit ==
    /\ Init
    /\ variant = "flash"
    /\ mediaSupported = TRUE
    /\ shareSupported = TRUE
    /\ storageThrows = FALSE
    /\ viewport = [w |-> 390, h |-> 844]

FlashSteps ==
    \/ init
    \/ flipCamera
    \/ \E i \in 1..Len(calls) : getUserMediaResolve(i)
    \/ \E i \in 1..Len(calls) : getUserMediaReject(i, "NotReadableError")
    \/ FlashNext

FlashSpec == FlashInit /\ [][FlashSteps]_vars

\* The settings sheet, the clock and the capture of frames on a camera
\* that starts once, on a device held upright.
SettingsInit ==
    /\ Init
    /\ mediaSupported = TRUE
    /\ hasTorch = TRUE
    /\ shareSupported = TRUE
    /\ viewport = [w |-> 390, h |-> 844]

SettingsSteps ==
    \/ init
    \/ \E i \in 1..Len(calls) : getUserMediaResolve(i)
    \/ \E size \in FrameSizes : loadedMetadata(size)
    \/ capturePhoto
    \/ SettingsNext

SettingsSpec == SettingsInit /\ [][SettingsSteps]_vars

\* What may be found under 'tsCamera_settings' when the page loads: nothing,
\* the empty string, text that is not JSON, JSON that is not an object, or
\* an object whose fields are missing, of the wrong type, out of range, or
\* as saveSettings wrote them.
StoredFields ==
    [timestampEnabled : {JUndefined, JBool(FALSE), JStr(<<"y", "e", "s">>)},
     timestampMode    : {JUndefined, JStr("custom"), JStr("live")},
     customDateTime   : {JUndefined, JStr(<< >>), JNum(42),
                         JStr(<<"2", "0", "2", "4", "-", "0", "2", "-", "2",
                                "9", "T", "2", "3", ":", "0", "7">>)}]
StoredValues ==
    {NoItem,
     [kind |-> "empty", value |-> JNull],
     [kind |-> "text", value |-> JNull],
     JSONstringify(JNull),
     JSONstringify(JNum(7))}
    \cup {JSONstringify(JObject(f)) : f \in StoredFields}

\* The settings sheet on a page that loads with anything in storage.
StorageInit ==
    /\ InitApp
    /\ FormatIdle
    /\ localStorage \in StoredValues
    /\ swCaches = NoCaches
    /\ variant \in Variants
    /\ storageThrows \in BOOLEAN
    /\ mediaSupported = TRUE
    /\ hasTorch = TRUE
    /\ shareSupported = TRUE
    /\ viewport = [w |-> 390, h |-> 844]

StorageSteps ==
    \/ init
    \/ timestampToggleChange
    \/ \E value \in {"current", "custom"} : timeModeChange(value)
    \/ \E value \in PickerValues : customTimeInput(value)

StorageSpec == StorageInit /\ [][StorageSteps]_vars

\* The settings sheet and the capture of frames across page loads.
ReloadInit ==
    /\ Init
    /\ mediaSupported = TRUE
    /\ hasTorch = TRUE
    /\ shareSupported = TRUE
    /\ storageThrows = FALSE
    /\ viewport = [w |-> 390, h |-> 844]

ReloadSteps ==
    \/ init
    \/ \E i \in 1..Len(calls) : getUserMediaResolve(i)
    \/ loadedMetadata([w |-> 1920, h |-> 1080])
    \/ capturePhoto
    \/ clockTick
    \/ timestampToggleChange
    \/ \E value \in {"current", "custom"} : timeModeChange(value)
    \/ \E value \in PickerValues : customTimeInput(value)
    \/ reload

ReloadSpec == ReloadInit /\ [][ReloadSteps]_vars

\* This version of the service worker on an origin that may hold caches
\* of earlier versions, or of an earlier installation of this one.
CacheNames == {"ts-camera-v1", "ts-camera-v2", CACHE_NAME}
CacheContents == {{}, {"index.html", "favicon.ico"}, ASSETS}
InitialCaches == UNION {[S -> CacheContents] : S \in SUBSET CacheNames}

WorkerInit ==
    /\ InitApp
    /\ FormatIdle
    /\ localStorage = NoItem
    /\ swCaches \in InitialCaches
    /\ variant = "flash"
    /\ storageThrows = FALSE
    /\ mediaSupported = TRUE
    /\ hasTorch = TRUE
    /\ shareSupported = TRUE
    /\ viewport = [w |-> 390, h |-> 844]

WorkerSpec == WorkerInit /\ [][WorkerNext]_vars

\* Capture, preview and export on a camera that starts once, on a device
\* held upright, with the settings sheet left alone.
PreviewInit ==
    /\ Init
    /\ mediaSupported = TRUE
    /\ hasTorch = TRUE
    /\ storageThrows = FALSE
    /\ viewport = [w |-> 390, h |-> 844]

PreviewSteps ==
    \/ init
    \/ \E i \in 1..Len(calls) : getUserMediaResolve(i)
    \/ \E size \in FrameSizes : loadedMetadata(size)
    \/ capturePhoto
    \/ \E e \in encodes, ok \in BOOLEAN : toBlobCallback(e, ok)
    \/ closePreview
    \/ ExportNext

PreviewSpec == PreviewInit /\ [][PreviewSteps]_vars

\* ------------------------------------------------------------------------
\* formatDateTime on its own: two dates are drawn, then formatted by the
\* variant's formatter.
\* ------------------------------------------------------------------------
FormatYears == {999, 1000, 2026, 10000}
FormatInputs ==
    {InvalidDate} \cup
    { MkDate(y, mo, d, h, mi, sec) :
        y \in FormatYears, mo \in {0, 1, 11}, d \in {1, 28},
        h \in {0, 23}, mi \in {5, 59}, sec \in {7, 59} }

FormatInit ==
    /\ InitApp
    /\ FirstVisit
    /\ shareSupported = TRUE
    /\ variant \in Variants
    /\ mediaSupported = TRUE
    /\ hasTorch = TRUE
    /\ storageThrows = FALSE
    /\ viewport = [w |-> 390, h |-> 844]
    /\ fmtD1 \in FormatInputs /\ fmtD2 \in FormatInputs
    /\ fmtS1 = << >> /\ fmtS2 = << >>

applyFormat ==
    /\ ~Started
    /\ fmtS1' = formatDateTime(variant, fmtD1)
    /\ fmtS2' = formatDateTime(variant, fmtD2)
    /\ lastOp' = Op("formatDateTime")
    /\ UNCHANGED <<envVars, flashVars, expVars, swVars,
                   camVars, setVars, capVars, fmtD1, fmtD2,
                   timestampOverlay, now, viewport>>

FormatSpec == FormatInit /\ [][applyFormat]_vars

Formatted == lastOp.op = "formatDateTime"

\* A string with every digit replaced by "9": its layout.
Layout(s) == [i \in 1..Len(s) |-> IF IsDigit(s[i]) THEN "9" ELSE s[i]]
FlashLayout == <<"9", "9", "/", "9", "9", "/", "9", "9", "9", "9", " ",
                 "9", "9", ":", "9", "9">>
OverlayLayout == <<"9", "9", "9", "9", "-", "9", "9", "-", "9", "9", " ",
                   "9", "9", ":", "9", "9", ":", "9", "9">>
FourDigitYear(d) == d.year >= 1000 /\ d.year <= 9999

RECURSIVE TupleLess(_, _)
TupleLess(a, b) ==
    IF a = << >> THEN FALSE
    ELSE IF Head(a) # Head(b) THEN Head(a) < Head(b)
    ELSE TupleLess(Tail(a), Tail(b))

\* The fields of d down to the unit the variant's format prints: minutes
\* in part_000, seconds in part_001.
PrintedFields(v, d) ==
    IF v = "flash"
    THEN <<d.year, d.month, d.date, d.hours, d.minutes>>
    ELSE <<d.year, d.month, d.date, d.hours, d.minutes, d.seconds>>

\* d1 is earlier than d2 at the precision the variant prints.
Earlier(v, d1, d2) == TupleLess(PrintedFields(v, d1), PrintedFields(v, d2))

FormatWidthOf(d, s) ==
    /\ ~d.valid => s = << >>
    /\ d.valid =>
          Len(s) = Len(String(d.year))
                   + (IF variant = "flash" THEN 12 ELSE 15)
    /\ d.valid /\ FourDigitYear(d) =>
          Layout(s) = IF variant = "flash" THEN FlashLayout ELSE OverlayLayout

\* C1: a capture of a ready frame leaves the canvas, and the image handed
\* to the encoder, sized (videoHeight, videoWidth) when the viewport is
\* portrait and the frame landscape, and (videoWidth, videoHeight)
\* otherwise, whatever the facing mode.
C1_CanvasSize ==
    (lastOp.op = "capturePhoto" /\ videoSize.w > 0 /\ videoSize.h > 0) =>
        LET swap == viewport.h > viewport.w /\ videoSize.w > videoSize.h
            w == IF swap THEN videoSize.h ELSE videoSize.w
            h == IF swap THEN videoSize.w ELSE videoSize.h
        IN  /\ captureCanvas.width = w /\ captureCanvas.height = h
            /\ \E e \in encodes :
                  /\ e.id = nextBlob - 1
                  /\ e.image.width = w /\ e.image.height = h

\* C1 witness: a portrait device captured a 1920x1080 frame taken with the
\* front camera and the image is 1080x1920.
C1_Witness ==
    /\ lastOp.op = "capturePhoto"
    /\ viewport = [w |-> 390, h |-> 844]
    /\ videoSize = [w |-> 1920, h |-> 1080]
    /\ facingMode = "user"
    /\ captureCanvas.width = 1080 /\ captureCanvas.height = 1920

\* C2: a capture mirrors exactly when the stream attached to the video
\* element was requested with facing mode 'user'.
C2_MirrorMatchesStream ==
    (lastOp.op = "capturePhoto" /\ videoSize.w > 0 /\ videoSize.h > 0) =>
        (captureCanvas.mirrored <=> calls[srcObject].facing = "user")

\* C3: while the timestamp is disabled getTimestampText is empty, a
\* capture draws no text, and (part_001) the live overlay is hidden once a
\* handler has refreshed it, whatever the mode and the custom time.
C3_DisabledNoText ==
    ~timestampEnabled =>
        /\ getTimestampText = << >>
        /\ (lastOp.op = "capturePhoto" /\ videoSize.w > 0 /\ videoSize.h > 0)
              => /\ captureCanvas.text = << >>
                 /\ \A e \in encodes : e.id = nextBlob - 1 => e.image.text = << >>
        /\ (variant = "overlay" /\ Started)
              => timestampOverlay.display = "none"

\* C3 witness: a capture was taken with the timestamp disabled, in custom
\* mode with a custom time chosen.
C3_Witness ==
    /\ lastOp.op = "capturePhoto"
    /\ videoSize.w > 0
    /\ nextBlob > 1
    /\ ~timestampEnabled
    /\ timestampMode = "custom"
    /\ customDateTime # << >>

SettingsOps == {"timestampToggle.change", "timeMode.change", "customTime.input"}
Triple(s) == <<s.timestampEnabled, s.timestampMode, s.customDateTime>>

\* C4: after a settings change has been saved, loadSettings run from the
\* defaults on the stored record gives back the in-memory triple
\* (timestampEnabled, timestampMode, customDateTime).
C4_RoundTrip ==
    (lastOp.op \in SettingsOps /\ ~storageThrows) =>
        Triple(loadSettings(DefaultSettings(Now), localStorage, FALSE))
            = Triple(CurrentSettings)

\* C5 (as amended): an invalid date formats to the empty string; a valid
\* date formats with day, month, hours, minutes (and seconds) zero-padded
\* to two digits and the year printed as it is, so that the string has the
\* variant's fixed layout whenever the year has four digits.
C5_FormatWidth ==
    Formatted => FormatWidthOf(fmtD1, fmtS1) /\ FormatWidthOf(fmtD2, fmtS2)

\* C5 witness: a valid date with one-digit day and hour in year 1000 and
\* an invalid date were formatted.
C5_Witness ==
    /\ Formatted
    /\ fmtD1.valid /\ fmtD1.year = 1000 /\ fmtD1.date = 1 /\ fmtD1.hours = 0
    /\ ~fmtD2.valid
    /\ fmtS1 # << >>

\* C5 (as claimed): invalid dates format to the empty string and all valid
\* dates format to strings of one length.
C5_OneFixedLength ==
    Formatted =>
        /\ ~fmtD1.valid => fmtS1 = << >>
        /\ (fmtD1.valid /\ fmtD2.valid) => Len(fmtS1) = Len(fmtS2)

SameMonth(d1, d2) == d1.year = d2.year /\ d1.month = d2.month

\* C6 (as amended): for dates with four-digit years an earlier date
\* formats to a string that is lexicographically no greater, in part_001
\* always and in part_000 (which prints the day first) when both dates lie
\* in the same month of the same year.
C6_Sortable ==
    (/\ Formatted
     /\ fmtD1.valid /\ fmtD2.valid
     /\ FourDigitYear(fmtD1) /\ FourDigitYear(fmtD2)
     /\ variant = "flash" => SameMonth(fmtD1, fmtD2)
     /\ Earlier(variant, fmtD1, fmtD2))
        => StrLeq(fmtS1, fmtS2)

\* C6 witness: part_001 formatted 28 January and 1 February of the same
\* year, in that order.
C6_Witness ==
    /\ Formatted /\ variant = "overlay"
    /\ fmtD1.valid /\ fmtD2.valid
    /\ fmtD1.year = 2026 /\ fmtD2.year = 2026
    /\ fmtD1.month = 0 /\ fmtD1.date = 28
    /\ fmtD2.month = 1 /\ fmtD2.date = 1
    /\ StrLess(fmtS1, fmtS2)

\* C6 (as claimed): in every variant, for any two valid dates, the earlier
\* one formats to a string that is lexicographically no greater.
C6_SortableEveryVariant ==
    (/\ Formatted
     /\ fmtD1.valid /\ fmtD2.valid
     /\ Earlier(variant, fmtD1, fmtD2))
        => StrLeq(fmtS1, fmtS2)


StartOps == {"init", "flipCamera", "retryClick"}
Denied == {"NotAllowedError", "PermissionDeniedError"}
NoDevice == {"NotFoundError", "DevicesNotFoundError"}
PanelShown == cameraOverlay # NoOverlay
LiveAttached == srcObject # NoStream /\ srcObject \notin stopped
Settled == \A i \in 1..Len(calls) : calls[i].status # "pending"

\* C7: a failed startCamera shows the panel of exactly one of four
\* classes: permission-denied, no-device, unsupported-api, other.  The
\* four titles and the four retry labels are pairwise distinct and only
\* unsupported-api has no retry button.
C7_Classified ==
    /\ lastOp.op = "getUserMedia.reject" =>
          /\ PanelShown
          /\ lastOp.err \in Denied <=> cameraOverlay.title = "Camera access denied"
          /\ lastOp.err \in NoDevice <=> cameraOverlay.title = "No camera found"
          /\ lastOp.err \notin (Denied \cup NoDevice)
                <=> cameraOverlay.title = "Camera error"
    /\ (lastOp.op \in StartOps /\ ~mediaSupported) =>
          cameraOverlay.title = "Camera not available"
    /\ PanelShown =>
          /\ cameraOverlay.title = "Camera access denied"
                <=> cameraOverlay.buttonText = "Grant Camera Access"
          /\ cameraOverlay.title = "No camera found"
                <=> cameraOverlay.buttonText = "Try Again"
          /\ cameraOverlay.title = "Camera error"
                <=> cameraOverlay.buttonText = "Start Camera"
          /\ cameraOverlay.title = "Camera not available"
                <=> cameraOverlay.buttonText = NULL
          /\ cameraOverlay.buttonText = NULL <=> cameraOverlay.listeners = 0
          /\ cameraOverlay.title \in {"Camera access denied", "No camera found",
                                      "Camera error", "Camera not available"}

\* C7 witness: a request was rejected with the legacy no-device error and
\* the no-device panel is shown.
C7_Witness ==
    /\ lastOp.op = "getUserMedia.reject"
    /\ lastOp.err = "DevicesNotFoundError"
    /\ cameraOverlay.title = "No camera found"
    /\ cameraOverlay.buttonText = "Try Again"

\* C8: a permission-denied rejection shows "Camera access denied" with a
\* "Grant Camera Access" button; a tap on the retry button calls
\* startCamera exactly once and removes the panel; when the request that
\* tap issued succeeds, a live stream is attached and no panel is shown.
C8_RetryRecovers ==
    [][/\ (lastOp'.op = "getUserMedia.reject" /\ lastOp'.err \in Denied) =>
              /\ cameraOverlay'.title = "Camera access denied"
              /\ cameraOverlay'.buttonText = "Grant Camera Access"
       /\ lastOp'.op = "retryClick" =>
              /\ Len(calls') = Len(calls) + 1
              /\ calls'[Len(calls')].origin = "retry"
              /\ cameraOverlay' = NoOverlay
       /\ (lastOp'.op = "getUserMedia.resolve"
             /\ calls[lastOp'.id].origin = "retry") =>
              /\ srcObject' = lastOp'.id
              /\ srcObject' \notin stopped'
              /\ cameraOverlay' = NoOverlay]_vars

\* C9: every acquired stream other than the one held in currentStream has
\* had its tracks stopped.
C9_OneLiveStream ==
    \A i \in 1..Len(calls) :
        (calls[i].status = "resolved" /\ i # currentStream) => i \in stopped

\* C10: once every acquisition has settled the session is Idle (no live
\* stream, no panel; only before the first start), Active (live stream, no
\* panel) or Error (panel, no live stream).
C10_IdleActiveError ==
    Settled =>
        /\ ~(PanelShown /\ LiveAttached)
        /\ (~PanelShown /\ ~LiveAttached) => ~Started

\* ------------------------------------------------------------------------
\* C11 (claimed): right after closePreview, after downloadPhoto, and after
\* a sharePhoto whose share call has completed, capturedBlob is null.
\* ------------------------------------------------------------------------
C11_ReleasedAfterExport ==
    lastOp.op \in {"closePreview", "downloadPhoto", "share.resolve"}
        => capturedBlob = NoBlob

\* ------------------------------------------------------------------------
\* C12: sharePhoto and the settling of its share call leave capturedBlob,
\* the preview image, the preview's visibility and the error panel as they
\* were; a rejection with AbortError logs nothing, any other rejection is
\* logged once, and the rejection is consumed by the catch block.
\* ------------------------------------------------------------------------
C12_ShareFailureSilent ==
    [][ /\ lastOp'.op \in {"sharePhoto", "share.resolve", "share.reject"}
            => UNCHANGED <<capturedBlob, previewImgSrc, previewHidden,
                           cameraOverlay>>
        /\ lastOp'.op = "share.reject"
            => /\ shares'[lastOp'.id].status = "rejected"
               /\ consoleErrors' =
                      IF lastOp'.err = "AbortError" THEN consoleErrors
                      ELSE Append(consoleErrors, lastOp'.err)
      ]_vars

C12_Witness ==
    /\ lastOp.op = "share.reject"
    /\ lastOp.err = "AbortError"
    /\ consoleErrors = << >>
    /\ capturedBlob # NoBlob
    /\ previewImgSrc = capturedBlob.id
    /\ ~previewHidden

\* ------------------------------------------------------------------------
\* C13: a capture that finds the frame not ready starts no encoding and
\* changes nothing of the capture, the preview, the error panel or the
\* exports; a toBlob callback with a null blob leaves capturedBlob, the
\* preview image, its visibility and the error panel as they were; the
\* image of a failed encoding is never the held, downloaded or shared one.
\* ------------------------------------------------------------------------
C13_FailedCaptureNoOp ==
    /\ [][ /\ (lastOp'.op = "capturePhoto"
               /\ (videoSize.w = 0 \/ videoSize.h = 0))
               => UNCHANGED <<capVars, cameraOverlay, expVars>>
           /\ (lastOp'.op = "toBlob.callback" /\ lastOp'.err = "null blob")
               => UNCHANGED <<capturedBlob, previewImgSrc, previewHidden,
                              cameraOverlay, expVars>>
           /\ lastOp'.op = "downloadPhoto"
               => \A k \in 1..Len(downloads') :
                      \/ k <= Len(downloads) /\ downloads'[k] = downloads[k]
                      \/ capturedBlob # NoBlob
                           /\ downloads'[k] = capturedBlob.id
           /\ lastOp'.op = "sharePhoto"
               => \A k \in 1..Len(shares') :
                      \/ k <= Len(shares) /\ shares'[k] = shares[k]
                      \/ capturedBlob # NoBlob
                           /\ shares'[k].file = capturedBlob.id
         ]_vars
    /\ []((lastOp.op = "toBlob.callback" /\ lastOp.err = "null blob")
            => /\ capturedBlob.id # lastOp.id
               /\ previewImgSrc # lastOp.id
               /\ \A k \in 1..Len(downloads) : downloads[k] # lastOp.id
               /\ \A k \in 1..Len(shares) : shares[k].file # lastOp.id)

C13_Witness ==
    /\ lastOp.op = "toBlob.callback"
    /\ lastOp.err = "null blob"
    /\ capturedBlob # NoBlob
    /\ capturedBlob.id # lastOp.id
    /\ previewImgSrc = capturedBlob.id
    /\ ~previewHidden
    /\ cameraOverlay = NoOverlay

\* ------------------------------------------------------------------------
\* C14 (claimed): whatever is stored under the settings key, and whether
\* or not storage throws, after init timestampEnabled is a boolean,
\* timestampMode is 'current' or 'custom', customDateTime is a string, and
\* a setting whose stored field is missing or invalid has its default.
\* ------------------------------------------------------------------------
StoredField(name) ==
    IF ~storageThrows /\ JSONparses(localStorage)
       /\ JSONparse(localStorage).t = "object"
    THEN JSONparse(localStorage).f[name]
    ELSE JUndefined

C14_CorruptStorageHarmless ==
    /\ Started =>
         /\ timestampEnabled \in BOOLEAN
         /\ timestampMode \in {"current", "custom"}
         /\ IsString(customDateTime)
    /\ lastOp.op = "init" =>
         LET e == StoredField("timestampEnabled")
             m == StoredField("timestampMode")
             c == StoredField("customDateTime")
         IN  /\ timestampEnabled = IF e.t = "boolean" THEN e.v ELSE TRUE
             /\ timestampMode =
                    IF m.t = "string" /\ m.v \in {"current", "custom"}
                    THEN m.v ELSE "current"
             /\ customDateTime = IF c.t = "string" THEN c.v ELSE << >>

\* ------------------------------------------------------------------------
\* C15 (claimed): a capture taken with the timestamp enabled and
\* timestampMode 'custom' is stamped with the formatted value of the
\* custom-time control, in the first session and after a reload.
\* ------------------------------------------------------------------------
C15_CustomStampIsPickerValue ==
    (/\ lastOp.op = "capturePhoto"
     /\ FrameReady(videoSize)
     /\ timestampEnabled
     /\ timestampMode = "custom")
        => captureCanvas.text =
               formatDateTime(variant, NewDate(customTimeInputValue))

\* ------------------------------------------------------------------------
\* C16: while timestampMode is 'current', getTimestampText returns at the
\* present instant what it would return with any other customDateTime in
\* its place, and a capture taken now carries that same stamp.
\* ------------------------------------------------------------------------
OtherCustomDateTimes == PickerValues \cup {toLocalISOString(Now)}

C16_CustomIgnoredInCurrentMode ==
    timestampMode = "current" =>
        \A other \in OtherCustomDateTimes :
            /\ getTimestampText =
                   TimestampText(variant, timestampEnabled, timestampMode,
                                 other, Now)
            /\ (lastOp.op = "capturePhoto" /\ FrameReady(videoSize))
                   => captureCanvas.text =
                          TimestampText(variant, timestampEnabled,
                                        timestampMode, other, Now)

C16_Witness ==
    /\ timestampMode = "current"
    /\ timestampEnabled
    /\ customDateTime # << >>
    /\ NewDate(customDateTime) # Now
    /\ lastOp.op = "capturePhoto"
    /\ FrameReady(videoSize)
    /\ captureCanvas.text = formatDateTime(variant, Now)

\* ------------------------------------------------------------------------
\* C17: getUserMedia requests are issued only by init, by a tap on the flip
\* button and by a tap on the retry button; each of them runs startCamera
\* once, which issues one request for the facing mode then current (none
\* where the API is missing: the 'Camera not available' panel is shown
\* instead); no other step, a rejection in particular, issues a request.
\* ------------------------------------------------------------------------
C17_NoAutomaticRetry ==
    [][ /\ lastOp'.op \in StartOps =>
            IF mediaSupported
            THEN calls' =
                   Append(calls,
                          [facing |-> facingMode',
                           origin |-> CASE lastOp'.op = "init" -> "init"
                                        [] lastOp'.op = "flipCamera" -> "flip"
                                        [] OTHER -> "retry",
                           status |-> "pending"])
            ELSE /\ calls' = calls
                 /\ cameraOverlay'.title = "Camera not available"
                 /\ cameraOverlay'.listeners = 0
        /\ lastOp'.op \notin StartOps =>
            /\ Len(calls') = Len(calls)
            /\ \A i \in 1..Len(calls) :
                   /\ calls'[i].facing = calls[i].facing
                   /\ calls'[i].origin = calls[i].origin
      ]_vars

C17_Witness ==
    /\ lastOp.op = "retryClick"
    /\ Len(calls) = 2
    /\ calls[1].status = "rejected"
    /\ calls[2] = [facing |-> facingMode, origin |-> "retry",
                   status |-> "pending"]

\* ------------------------------------------------------------------------
\* C18 (claimed): capturedBlob and the preview image always refer to the
\* same capture, and the image of an earlier capture never replaces the
\* image of a later one: once the encodings have completed with data, the
\* most recently triggered capture is the one held and shown.
\* ------------------------------------------------------------------------
C18_LatestCaptureWins ==
    /\ [](previewImgSrc = capturedBlob.id)
    /\ [][ (/\ lastOp'.op = "toBlob.callback"
             /\ lastOp'.err = "none"
             /\ lastOp'.id < capturedBlob.id)
                => /\ capturedBlob' = capturedBlob
                   /\ previewImgSrc' = previewImgSrc
          ]_vars

\* ------------------------------------------------------------------------
\* C19: in the live-overlay variant a tick of the one-second timer changes
\* nothing but the timestamp display element, and right after a tick or a
\* settings change the display shows getTimestampText() and is hidden
\* exactly when that text is empty.
\* ------------------------------------------------------------------------
C19_TimerOnlyRefreshesDisplay ==
    /\ [][ lastOp'.op = "overlayTimer"
             => UNCHANGED <<envVars, flashVars, expVars, swVars, camVars, setVars,
                            capVars, fmtVars, now, viewport>>
          ]_vars
    /\ []((variant = "overlay"
             /\ lastOp.op \in {"overlayTimer"} \cup SettingsOps)
            => /\ timestampOverlay.textContent = getTimestampText
               /\ timestampOverlay.display = "none"
                      <=> getTimestampText = << >>)

C19_Witness ==
    /\ variant = "overlay"
    /\ lastOp.op = "overlayTimer"
    /\ now > 0
    /\ timestampMode = "current"
    /\ timestampOverlay.display = "block"
    /\ timestampOverlay.textContent = formatDateTime("overlay", Now)
    /\ timestampOverlay.textContent # formatDateTime("overlay", ClockDate(0))

\* ------------------------------------------------------------------------
\* C20: once the activate step has completed the origin holds no cache
\* named other than CACHE_NAME; activation leaves the current cache and
\* what it holds in place; a fetch event is answered from the cache exactly
\* when some cache holds a response for the request, else from the network.
\* ------------------------------------------------------------------------
C20_CachePurgedCacheFirst ==
    /\ [](swPhase = "activated" => DOMAIN swCaches \subseteq {CACHE_NAME})
    /\ [][ (swPhase = "installed" /\ swPhase' = "activated")
             => /\ CACHE_NAME \in DOMAIN swCaches
                /\ CACHE_NAME \in DOMAIN swCaches'
                /\ swCaches'[CACHE_NAME] = swCaches[CACHE_NAME]
          ]_vars
    /\ [](swResponse # NoResponse
            => (swResponse.from = "cache"
                  <=> cachesMatch(swCaches, swResponse.request)))

C20_Witness ==
    /\ swPhase = "activated"
    /\ DOMAIN swCaches = {CACHE_NAME}
    /\ swCaches[CACHE_NAME] = ASSETS \cup {"favicon.ico"}
    /\ swResponse = [request |-> "favicon.ico", from |-> "cache"]

\* ------------------------------------------------------------------------
\* C21: the preview is visible exactly when capturedBlob is non-null, and
\* then shows that blob; downloadPhoto and sharePhoto export nothing while
\* no preview is shown and otherwise export the image shown (sharePhoto
\* only where navigator.share exists).
\* ------------------------------------------------------------------------
C21_PreviewIffBlob ==
    /\ [](~previewHidden <=> capturedBlob # NoBlob)
    /\ [](previewImgSrc = capturedBlob.id)
    /\ [][ /\ lastOp'.op = "downloadPhoto" =>
               downloads' = IF previewHidden THEN downloads
                            ELSE Append(downloads, previewImgSrc)
           /\ lastOp'.op = "sharePhoto" =>
               shares' = IF previewHidden \/ ~shareSupported THEN shares
                         ELSE Append(shares, [file |-> previewImgSrc,
                                              status |-> "pending"])
         ]_vars

C21_Witness ==
    /\ lastOp.op = "downloadPhoto"
    /\ ~previewHidden
    /\ capturedBlob # NoBlob
    /\ previewImgSrc = 2
    /\ downloads = <<2>>

\* ------------------------------------------------------------------------
\* C23 (claimed): a toBlob callback that runs right after closePreview,
\* hence for a capture triggered before the dismissal, leaves the preview
\* hidden and capturedBlob null.
\* ------------------------------------------------------------------------
C23_DismissedStaysClosed ==
    [][ (lastOp.op = "closePreview" /\ lastOp'.op = "toBlob.callback")
            => previewHidden' /\ capturedBlob' = NoBlob
      ]_vars

\* ------------------------------------------------------------------------
\* C24: where getUserMedia always settles, every request startCamera has
\* issued is eventually settled; a startCamera whose request resolves ends
\* with that stream in currentStream and attached to the video element,
\* one whose request rejects, or that found no API, ends with the error
\* panel shown.
\* ------------------------------------------------------------------------
C24_StartCameraSettles ==
    /\ \A i \in 1..MaxStarts : Pending(i) ~> ~Pending(i)
    /\ [][ /\ lastOp'.op = "getUserMedia.resolve" =>
               /\ calls'[lastOp'.id].status = "resolved"
               /\ currentStream' = lastOp'.id
               /\ srcObject' = lastOp'.id
           /\ lastOp'.op = "getUserMedia.reject" =>
               /\ calls'[lastOp'.id].status = "rejected"
               /\ cameraOverlay' # NoOverlay
           /\ (lastOp'.op \in StartOps /\ ~mediaSupported) =>
               cameraOverlay' # NoOverlay
         ]_vars

C24_Witness ==
    /\ Len(calls) = 2
    /\ calls[1].status = "rejected"
    /\ lastOp = [op |-> "getUserMedia.resolve", id |-> 2, err |-> "none"]
    /\ currentStream = 2
    /\ srcObject = 2

\* ------------------------------------------------------------------------
\* C22 (claimed): in part_000, once no applyConstraints call is pending,
\* flashOn is true only if torchSupported is true and the track of the
\* current stream has the torch lit; and when a camera start or flip
\* completes, the flash is off.
\* ------------------------------------------------------------------------
AppliesSettled == \A i \in 1..Len(applies) : applies[i].status # "pending"

C22_FlashOnMeansTorchLit ==
    variant = "flash" =>
        /\ (flashOn /\ AppliesSettled)
               => torchSupported /\ currentStream \in torchOn
        /\ lastOp.op = "getUserMedia.resolve" => ~flashOn
====
